---- MODULE Spec2Model ----
(***************************************************************************)
(* Model of the BadgerDB buffer manager, src/buffer-manager/src/buffer.cpp *)
(* (class BufMgr): the frame descriptors, the page directory (hash table), *)
(* the clock hand, and the operations readPage (fetchPage), unPinPage,     *)
(* allocPage (allocatePage), disposePage and flushFile, with the clock     *)
(* allocator allocBuf.  An exception thrown half way through an operation  *)
(* leaves the writes made before it: every operator returns the manager    *)
(* state at the point where the code returns or throws, and the error.     *)
(***************************************************************************)
EXTENDS Integers, Sequences, FiniteSets, TLC

(* ---------------------------------------------------------------- bounds *)
NumBufs == 2
MaxPage == 2
MaxPin == 2

(* The null File pointer and Page::INVALID_NUMBER of a cleared descriptor. *)
NullFile == "NULL"
InvalidPage == 0

Files == {"F", "G"}
\* File F has pages 1..MaxPage, file G the single page 1.
PagesOf(f) == IF f = "F" THEN 1..MaxPage ELSE {1}
Keys == {k \in Files \X (1..MaxPage) : k[2] \in PagesOf(k[1])}
Frames == 0..(NumBufs - 1)

\* alive: the BufMgr object has not been destroyed.  threads: where each
\* client thread stands inside a readPage or allocPage call (used by
\* SpecConc only).
VARIABLES bufDescTable, hashTable, clockHand, alive, threads
vars == <<bufDescTable, hashTable, clockHand, alive, threads>>

Threads == {"t1", "t2"}

(* ------------------------------------------------------ frame descriptor *)
\* BufDesc::Clear(): the free state of a descriptor.
Clear == [file |-> NullFile, pageNo |-> InvalidPage, pinCnt |-> 0,
          dirty |-> FALSE, valid |-> FALSE, refbit |-> FALSE]

\* BufDesc::Set(file, pageNo): the descriptor of a page just loaded.
Set(file, pageNo) == [file |-> file, pageNo |-> pageNo, pinCnt |-> 1,
                      dirty |-> FALSE, valid |-> TRUE, refbit |-> TRUE]

(* --------------------------------------------------------- page directory *)
\* BufHashTbl as the set of its entries <<file, pageNo, frameNo>>.
Entries(ht, file, pageNo) == {e \in ht : e[1] = file /\ e[2] = pageNo}

\* BufHashTbl::lookup finds an entry or throws HashNotFoundException.
Found(ht, file, pageNo) == Entries(ht, file, pageNo) # {}

lookup(ht, file, pageNo) == (CHOOSE e \in Entries(ht, file, pageNo) : TRUE)[3]

\* BufHashTbl::insert (the caller has checked that the key is absent).
insert(ht, file, pageNo, frameNo) == ht \cup {<<file, pageNo, frameNo>>}

\* BufHashTbl::remove (the caller has checked that the key is present).
remove(ht, file, pageNo) == ht \ Entries(ht, file, pageNo)

(* ------------------------------------------------------- manager state   *)
\* The manager's fields, as the operators below pass them along.
Mgr(desc, ht, hand) == [desc |-> desc, ht |-> ht, hand |-> hand]

\* What an operation hands back: the manager state where it returned or
\* threw, the exception ("none" when it returned), the frame it looked up,
\* chose or stopped at, and the Page Store calls it made.
Out(M, err, frame, writes, reads, allocs, deletes) ==
    [desc |-> M.desc, ht |-> M.ht, hand |-> M.hand, err |-> err,
     frame |-> frame, writes |-> writes, reads |-> reads,
     allocs |-> allocs, deletes |-> deletes]

NoFrame == -1

(* ----------------------------------------------------------- advanceClock *)
advanceClock(hand) == IF hand + 1 = NumBufs THEN 0 ELSE hand + 1

(* -------------------------------------------------------------- flushFile *)
RECURSIVE flushLoop_NoWrite(_, _, _, _)
\* flushFile that frees the frames of the file without writing the dirty
\* ones back.
flushLoop_NoWrite(M, file, i, writes) ==
    IF i >= NumBufs THEN Out(M, "none", NoFrame, writes, 0, 0, 0)
    ELSE LET d == M.desc[i] IN
      IF ~d.valid /\ d.file = file
        THEN Out(M, "BadBuffer", i, writes, 0, 0, 0)
      ELSE IF d.file = file /\ d.pinCnt > 0
        THEN Out(M, "PagePinned", i, writes, 0, 0, 0)
      ELSE IF d.valid /\ d.file = file
        THEN IF ~Found(M.ht, d.file, d.pageNo)
               THEN Out(M, "HashNotFound", i, writes, 0, 0, 0)
               ELSE flushLoop_NoWrite(Mgr([M.desc EXCEPT ![i] = Clear],
                                          remove(M.ht, d.file, d.pageNo),
                                          M.hand),
                                      file, i + 1, writes)
      ELSE flushLoop_NoWrite(M, file, i + 1, writes)

RECURSIVE flushLoop(_, _, _, _)
\* The for loop of flushFile from frame i on; writes are the pages written
\* back so far.
flushLoop(M, file, i, writes) ==
    IF i >= NumBufs THEN Out(M, "none", NoFrame, writes, 0, 0, 0)
    ELSE LET d == M.desc[i] IN
      IF ~d.valid /\ d.file = file
        THEN Out(M, "BadBuffer", i, writes, 0, 0, 0)
      ELSE IF d.file = file /\ d.pinCnt > 0
        THEN Out(M, "PagePinned", i, writes, 0, 0, 0)
      ELSE IF d.valid /\ d.file = file
        THEN LET w == IF d.dirty THEN Append(writes, <<d.file, d.pageNo>>)
                      ELSE writes
                 cleaned == [M.desc EXCEPT ![i].dirty = FALSE]
             IN IF ~Found(M.ht, d.file, d.pageNo)
                  THEN Out(Mgr(cleaned, M.ht, M.hand), "HashNotFound",
                           i, w, 0, 0, 0)
                  ELSE flushLoop(Mgr([M.desc EXCEPT ![i] = Clear],
                                     remove(M.ht, d.file, d.pageNo), M.hand),
                                 file, i + 1, w)
      ELSE flushLoop(M, file, i + 1, writes)

flushFile(M, file) == flushLoop(M, file, 0, <<>>)

(* --------------------------------------------------------------- allocBuf *)
RECURSIVE allocLoop_EvictsPinned(_, _)
\* allocBuf with a victim test that forgets the pin count of a clean frame.
allocLoop_EvictsPinned(M, c) ==
    IF ~(c <= NumBufs) THEN Out(M, "BufferExceeded", NoFrame, <<>>, 0, 0, 0)
    ELSE LET d == M.desc[M.hand] IN
      IF ~d.valid THEN Out(M, "none", M.hand, <<>>, 0, 0, 0)
      ELSE IF ~d.dirty
        THEN IF ~Found(M.ht, d.file, d.pageNo)
               THEN Out(M, "HashNotFound", M.hand, <<>>, 0, 0, 0)
               ELSE Out(Mgr(M.desc, remove(M.ht, d.file, d.pageNo), M.hand),
                        "none", M.hand, <<>>, 0, 0, 0)
      ELSE IF d.pinCnt = 0 /\ d.dirty
        THEN LET r == flushFile(M, d.file) IN
             IF r.err # "none" THEN r
             ELSE Out(r, "none", M.hand, r.writes, 0, 0, 0)
      ELSE allocLoop_EvictsPinned(Mgr(M.desc, M.ht, advanceClock(M.hand)),
                                  c + 1)

RECURSIVE allocLoop_NoThrow(_, _)
\* allocBuf that leaves its loop without throwing and hands out the frame
\* under the clock hand.
allocLoop_NoThrow(M, c) ==
    IF ~(c <= NumBufs) THEN Out(M, "none", M.hand, <<>>, 0, 0, 0)
    ELSE LET d == M.desc[M.hand] IN
      IF ~d.valid THEN Out(M, "none", M.hand, <<>>, 0, 0, 0)
      ELSE IF d.pinCnt = 0 /\ ~d.dirty
        THEN IF ~Found(M.ht, d.file, d.pageNo)
               THEN Out(M, "HashNotFound", M.hand, <<>>, 0, 0, 0)
               ELSE Out(Mgr(M.desc, remove(M.ht, d.file, d.pageNo), M.hand),
                        "none", M.hand, <<>>, 0, 0, 0)
      ELSE IF d.pinCnt = 0 /\ d.dirty
        THEN LET r == flushFile(M, d.file) IN
             IF r.err # "none" THEN r
             ELSE Out(r, "none", M.hand, r.writes, 0, 0, 0)
      ELSE allocLoop_NoThrow(Mgr(M.desc, M.ht, advanceClock(M.hand)), c + 1)

RECURSIVE allocLoop(_, _)
\* The while loop of allocBuf; c counts the pinned frames met so far.  The
\* refbit branch is only reached with a negative pin count, and with the
\* refbit clear as well the loop would spin without advancing ("Diverges").
allocLoop(M, c) ==
    IF ~(c <= NumBufs) THEN Out(M, "BufferExceeded", NoFrame, <<>>, 0, 0, 0)
    ELSE LET d == M.desc[M.hand] IN
      IF ~d.valid THEN Out(M, "none", M.hand, <<>>, 0, 0, 0)
      ELSE IF d.pinCnt = 0 /\ ~d.dirty
        THEN IF ~Found(M.ht, d.file, d.pageNo)
               THEN Out(M, "HashNotFound", M.hand, <<>>, 0, 0, 0)
               ELSE Out(Mgr(M.desc, remove(M.ht, d.file, d.pageNo), M.hand),
                        "none", M.hand, <<>>, 0, 0, 0)
      ELSE IF d.pinCnt = 0 /\ d.dirty
        THEN LET r == flushFile(M, d.file) IN
             IF r.err # "none" THEN r
             ELSE Out(r, "none", M.hand, r.writes, 0, 0, 0)
      ELSE IF d.pinCnt > 0
        THEN allocLoop(Mgr(M.desc, M.ht, advanceClock(M.hand)), c + 1)
      ELSE IF d.refbit
        THEN allocLoop(Mgr([M.desc EXCEPT ![M.hand].refbit = FALSE], M.ht,
                           advanceClock(M.hand)), c)
      ELSE Out(M, "Diverges", NoFrame, <<>>, 0, 0, 0)

allocBuf(M) == allocLoop(M, 0)

RECURSIVE allocVisits(_, _)
\* The frames the while loop of allocBuf inspects, in order: the values of
\* clockHand at the top of each iteration.
allocVisits(M, c) ==
    IF ~(c <= NumBufs) THEN <<>>
    ELSE LET d == M.desc[M.hand] IN
      IF ~d.valid \/ d.pinCnt = 0 THEN <<M.hand>>
      ELSE IF d.pinCnt > 0
        THEN <<M.hand>> \o allocVisits(Mgr(M.desc, M.ht,
                                           advanceClock(M.hand)), c + 1)
      ELSE IF d.refbit
        THEN <<M.hand>> \o
             allocVisits(Mgr([M.desc EXCEPT ![M.hand].refbit = FALSE], M.ht,
                             advanceClock(M.hand)), c)
      ELSE <<M.hand>>

(* --------------------------------------------------------------- readPage *)
\* readPage that forgets pinCnt++ on a directory hit.
readPage_HitNoPin(M, file, pageNo, storeOk) ==
    IF Found(M.ht, file, pageNo)
      THEN LET frameNo == lookup(M.ht, file, pageNo) IN
           Out(Mgr([M.desc EXCEPT ![frameNo].refbit = TRUE], M.ht, M.hand),
               "none", frameNo, <<>>, 0, 0, 0)
      ELSE LET a == allocBuf(M) IN
           IF a.err # "none" THEN a
           ELSE IF ~storeOk
             THEN Out(a, "StoreError", a.frame, a.writes, 1, 0, 0)
           ELSE Out(Mgr([a.desc EXCEPT ![a.frame] = Set(file, pageNo)],
                        insert(a.ht, file, pageNo, a.frame), a.hand),
                    "none", a.frame, a.writes, 1, 0, 0)

\* storeOk: whether File::readPage returns the page or throws.
readPage(M, file, pageNo, storeOk) ==
    IF Found(M.ht, file, pageNo)
      THEN LET frameNo == lookup(M.ht, file, pageNo) IN
           Out(Mgr([M.desc EXCEPT ![frameNo].refbit = TRUE,
                                  ![frameNo].pinCnt = @ + 1], M.ht, M.hand),
               "none", frameNo, <<>>, 0, 0, 0)
      ELSE LET a == allocBuf(M) IN
           IF a.err # "none" THEN a
           ELSE IF ~storeOk
             THEN Out(a, "StoreError", a.frame, a.writes, 1, 0, 0)
           ELSE IF Found(a.ht, file, pageNo)
             THEN Out(a, "HashAlreadyPresent", a.frame, a.writes, 1, 0, 0)
           ELSE Out(Mgr([a.desc EXCEPT ![a.frame] = Set(file, pageNo)],
                        insert(a.ht, file, pageNo, a.frame), a.hand),
                    "none", a.frame, a.writes, 1, 0, 0)

(* -------------------------------------------------------------- unPinPage *)
\* unPinPage without the test for a pin count of 0.
unPinPage_NoCheck(M, file, pageNo, dirty) ==
    IF ~Found(M.ht, file, pageNo)
      THEN Out(M, "none", NoFrame, <<>>, 0, 0, 0)
      ELSE LET t == lookup(M.ht, file, pageNo) IN
           Out(Mgr([M.desc EXCEPT ![t].dirty = IF dirty THEN TRUE ELSE @,
                                  ![t].pinCnt = @ - 1], M.ht, M.hand),
               "none", t, <<>>, 0, 0, 0)

\* unPinPage without the catch of HashNotFoundException.
unPinPage_MissThrows(M, file, pageNo, dirty) ==
    IF ~Found(M.ht, file, pageNo)
      THEN Out(M, "HashNotFound", NoFrame, <<>>, 0, 0, 0)
      ELSE LET t == lookup(M.ht, file, pageNo) IN
           IF M.desc[t].pinCnt = 0
             THEN Out(M, "PageNotPinned", t, <<>>, 0, 0, 0)
             ELSE Out(Mgr([M.desc EXCEPT
                             ![t].dirty = IF dirty THEN TRUE ELSE @,
                             ![t].pinCnt = @ - 1], M.ht, M.hand),
                      "none", t, <<>>, 0, 0, 0)

\* unPinPage that returns quietly when the pin count is already 0.
unPinPage_SilentAtZero(M, file, pageNo, dirty) ==
    IF ~Found(M.ht, file, pageNo)
      THEN Out(M, "none", NoFrame, <<>>, 0, 0, 0)
      ELSE LET t == lookup(M.ht, file, pageNo) IN
           IF M.desc[t].pinCnt = 0
             THEN Out(M, "none", t, <<>>, 0, 0, 0)
             ELSE Out(Mgr([M.desc EXCEPT
                             ![t].dirty = IF dirty THEN TRUE ELSE @,
                             ![t].pinCnt = @ - 1], M.ht, M.hand),
                      "none", t, <<>>, 0, 0, 0)

\* unPinPage that sets the dirty bit before it tests the pin count.
unPinPage_DirtyFirst(M, file, pageNo, dirty) ==
    IF ~Found(M.ht, file, pageNo)
      THEN Out(M, "none", NoFrame, <<>>, 0, 0, 0)
      ELSE LET t == lookup(M.ht, file, pageNo)
               D == [M.desc EXCEPT ![t].dirty = IF dirty THEN TRUE ELSE @]
           IN IF M.desc[t].pinCnt = 0
                THEN Out(Mgr(D, M.ht, M.hand), "PageNotPinned", t,
                         <<>>, 0, 0, 0)
                ELSE Out(Mgr([D EXCEPT ![t].pinCnt = @ - 1], M.ht, M.hand),
                         "none", t, <<>>, 0, 0, 0)

unPinPage(M, file, pageNo, dirty) ==
    IF ~Found(M.ht, file, pageNo)
      THEN Out(M, "none", NoFrame, <<>>, 0, 0, 0)
      ELSE LET t == lookup(M.ht, file, pageNo) IN
           IF M.desc[t].pinCnt = 0
             THEN Out(M, "PageNotPinned", t, <<>>, 0, 0, 0)
           ELSE IF M.desc[t].pinCnt > 0
             THEN Out(Mgr([M.desc EXCEPT
                             ![t].dirty = IF dirty THEN TRUE ELSE @,
                             ![t].pinCnt = @ - 1], M.ht, M.hand),
                      "none", t, <<>>, 0, 0, 0)
           ELSE Out(M, "none", t, <<>>, 0, 0, 0)

(* -------------------------------------------------------------- allocPage *)
\* allocPage that asks the file for the new page before it asks allocBuf
\* for a frame.
allocPage_StoreFirst(M, file, pageNo, storeOk) ==
    IF ~storeOk THEN Out(M, "StoreError", NoFrame, <<>>, 0, 1, 0)
    ELSE LET a == allocBuf(M) IN
      IF a.err # "none"
        THEN Out(a, a.err, a.frame, a.writes, 0, 1, 0)
      ELSE IF Found(a.ht, file, pageNo)
        THEN Out(a, "HashAlreadyPresent", a.frame, a.writes, 0, 1, 0)
      ELSE Out(Mgr([a.desc EXCEPT ![a.frame] = Set(file, pageNo)],
                   insert(a.ht, file, pageNo, a.frame), a.hand),
               "none", a.frame, a.writes, 0, 1, 0)

\* pageNo: the number File::allocatePage gives the new page; storeOk:
\* whether that call returns or throws.
allocPage(M, file, pageNo, storeOk) ==
    LET a == allocBuf(M) IN
    IF a.err # "none" THEN a
    ELSE IF ~storeOk THEN Out(a, "StoreError", a.frame, a.writes, 0, 1, 0)
    ELSE IF Found(a.ht, file, pageNo)
      THEN Out(a, "HashAlreadyPresent", a.frame, a.writes, 0, 1, 0)
    ELSE Out(Mgr([a.desc EXCEPT ![a.frame] = Set(file, pageNo)],
                 insert(a.ht, file, pageNo, a.frame), a.hand),
             "none", a.frame, a.writes, 0, 1, 0)

(* ------------------------------------------------------------ disposePage *)
\* disposePage that clears the descriptor and leaves the directory entry.
disposePage_KeepsEntry(M, file, pageNo, storeOk) ==
    IF Found(M.ht, file, pageNo)
      THEN LET t == lookup(M.ht, file, pageNo) IN
           IF M.desc[t].pinCnt # 0
             THEN Out(M, "PagePinned", t, <<>>, 0, 0, 0)
             ELSE Out(Mgr([M.desc EXCEPT ![t] = Clear], M.ht, M.hand),
                      IF storeOk THEN "none" ELSE "StoreError",
                      t, <<>>, 0, 0, 1)
      ELSE Out(M, IF storeOk THEN "none" ELSE "StoreError",
               NoFrame, <<>>, 0, 0, 1)

\* disposePage that deletes the page from the file before it looks at the
\* pin count.
disposePage_DeletesPinned(M, file, pageNo, storeOk) ==
    IF Found(M.ht, file, pageNo)
      THEN LET t == lookup(M.ht, file, pageNo) IN
           IF M.desc[t].pinCnt # 0
             THEN Out(M, "PagePinned", t, <<>>, 0, 0, 1)
             ELSE Out(Mgr([M.desc EXCEPT ![t] = Clear],
                          remove(M.ht, file, pageNo), M.hand),
                      IF storeOk THEN "none" ELSE "StoreError",
                      t, <<>>, 0, 0, 1)
      ELSE Out(M, IF storeOk THEN "none" ELSE "StoreError",
               NoFrame, <<>>, 0, 0, 1)

\* storeOk: whether File::deletePage returns or throws.
\* disposePage that marks the frame invalid and leaves the rest of the
\* descriptor, its owner file included.
disposePage_OnlyInvalidates(M, file, pageNo, storeOk) ==
    IF Found(M.ht, file, pageNo)
      THEN LET t == lookup(M.ht, file, pageNo) IN
           IF M.desc[t].pinCnt # 0
             THEN Out(M, "PagePinned", t, <<>>, 0, 0, 0)
             ELSE Out(Mgr([M.desc EXCEPT ![t].valid = FALSE,
                                         ![t].dirty = FALSE],
                          remove(M.ht, file, pageNo), M.hand),
                      IF storeOk THEN "none" ELSE "StoreError",
                      t, <<>>, 0, 0, 1)
      ELSE Out(M, IF storeOk THEN "none" ELSE "StoreError",
               NoFrame, <<>>, 0, 0, 1)

disposePage(M, file, pageNo, storeOk) ==
    IF Found(M.ht, file, pageNo)
      THEN LET t == lookup(M.ht, file, pageNo) IN
           IF M.desc[t].pinCnt # 0
             THEN Out(M, "PagePinned", t, <<>>, 0, 0, 0)
             ELSE Out(Mgr([M.desc EXCEPT ![t] = Clear],
                          remove(M.ht, file, pageNo), M.hand),
                      IF storeOk THEN "none" ELSE "StoreError",
                      t, <<>>, 0, 0, 1)
      ELSE Out(M, IF storeOk THEN "none" ELSE "StoreError",
               NoFrame, <<>>, 0, 0, 1)

(* ---------------------------------------------------------------- ~BufMgr *)
RECURSIVE destructorLoop(_, _, _)
\* The for loop of the destructor from frame i on: every descriptor with
\* the dirty bit set has its page written to its file.
destructorLoop(M, i, writes) ==
    IF i >= NumBufs THEN Out(M, "none", NoFrame, writes, 0, 0, 0)
    ELSE destructorLoop(M, i + 1,
           IF M.desc[i].dirty
             THEN Append(writes, <<M.desc[i].file, M.desc[i].pageNo>>)
             ELSE writes)

destructor(M) == destructorLoop(M, 0, <<>>)

(* ------------------------------------------------------------ the machine *)
Cur == Mgr(bufDescTable, hashTable, clockHand)

\* The state in which a call returned or threw becomes the manager's state.
Commit(r) ==
    /\ bufDescTable' = r.desc
    /\ hashTable' = r.ht
    /\ clockHand' = r.hand
    /\ UNCHANGED <<alive, threads>>

\* A thread that is in no call.
Idle == [pc |-> "idle", op |-> "none", file |-> NullFile,
         pageNo |-> InvalidPage, frame |-> NoFrame]

\* BufMgr::BufMgr(bufs): every descriptor free, the directory empty, the
\* clock hand on the last frame.
Init ==
    /\ bufDescTable = [i \in Frames |-> Clear]
    /\ hashTable = {}
    /\ clockHand = NumBufs - 1
    /\ alive = TRUE
    /\ threads = [t \in Threads |-> Idle]

\* The calls a client can make: the method, its page and its flag (storeOk
\* for the calls that reach the Page Store, dirty for unPinPage).
Call(op, file, pageNo, flag) ==
    [op |-> op, file |-> file, pageNo |-> pageNo, flag |-> flag]

ReadCalls == {Call("readPage", k[1], k[2], b) : k \in Keys, b \in BOOLEAN}

UnPinCalls == {Call("unPinPage", k[1], k[2], b) : k \in Keys, b \in BOOLEAN}

\* File::allocatePage numbers the new page with a number no page of the file
\* has, so never with the number of a page in the directory.
AllocCalls ==
    {Call("allocPage", k[1], k[2], b) :
       k \in {x \in Keys : ~Found(hashTable, x[1], x[2])}, b \in BOOLEAN}

DisposeCalls ==
    {Call("disposePage", k[1], k[2], b) : k \in Keys, b \in BOOLEAN}

FlushCalls == {Call("flushFile", f, InvalidPage, TRUE) : f \in Files}

Calls == ReadCalls \cup UnPinCalls \cup AllocCalls \cup DisposeCalls
           \cup FlushCalls

\* What call c does in the current state.
Result(c) ==
    CASE c.op = "readPage" -> readPage(Cur, c.file, c.pageNo, c.flag)
      [] c.op = "unPinPage" -> unPinPage(Cur, c.file, c.pageNo, c.flag)
      [] c.op = "allocPage" -> allocPage(Cur, c.file, c.pageNo, c.flag)
      [] c.op = "disposePage" -> disposePage(Cur, c.file, c.pageNo, c.flag)
      [] c.op = "flushFile" -> flushFile(Cur, c.file)

\* The model stops pinning a page at MaxPin pins.
WithinPins(r) == \A i \in Frames : r.desc[i].pinCnt <= MaxPin

DoReadPage ==
    /\ alive
    /\ \E c \in ReadCalls : WithinPins(Result(c)) /\ Commit(Result(c))

DoUnPinPage == alive /\ \E c \in UnPinCalls : Commit(Result(c))

DoAllocPage == alive /\ \E c \in AllocCalls : Commit(Result(c))

DoDisposePage == alive /\ \E c \in DisposeCalls : Commit(Result(c))

DoFlushFile == alive /\ \E c \in FlushCalls : Commit(Result(c))

\* BufMgr::~BufMgr(): the dirty pages are written, then the descriptor
\* table, the pool and the directory are released.  The destroyed manager
\* takes no further call; its released tables are shown empty.
DoDestructor ==
    /\ alive
    /\ alive' = FALSE
    /\ bufDescTable' = [i \in Frames |-> Clear]
    /\ hashTable' = {}
    /\ UNCHANGED <<clockHand, threads>>

Next ==
    \/ DoReadPage
    \/ DoUnPinPage
    \/ DoAllocPage
    \/ DoDisposePage
    \/ DoFlushFile
    \/ DoDestructor

Spec == Init /\ [][Next]_vars

(* ------------------------------------------------------------ vocabulary *)
\* Descriptor i of table desc holds page (file, pageNo) as a live page.
Holds(desc, i, file, pageNo) ==
    desc[i].valid /\ desc[i].file = file /\ desc[i].pageNo = pageNo

\* The directory entry of the page in frame i.
EntryOf(i) == <<bufDescTable[i].file, bufDescTable[i].pageNo, i>>

Resident(c) == Found(hashTable, c.file, c.pageNo)

AllPinned == \A i \in Frames : bufDescTable[i].pinCnt > 0

\* Call c asks allocBuf for a frame in the current state: a readPage that
\* misses the directory, or an allocPage.
AsksFrame(c) == c.op = "allocPage" \/ (c.op = "readPage" /\ ~Resident(c))

FrameCalls == {c \in ReadCalls \cup AllocCalls : AsksFrame(c)}

\* allocBuf returned a frame to the call with result r (whatever the Page
\* Store did afterwards).
GotFrame(r) == r.err \in {"none", "StoreError", "HashAlreadyPresent"}

\* Two descriptor tables that differ at most in refbits.
SameButRefbit(d1, d2) ==
    \A i \in Frames : [d1[i] EXCEPT !.refbit = FALSE] =
                      [d2[i] EXCEPT !.refbit = FALSE]

(* -------------------------------------------------------------------- C1 *)
\* C1: in every reachable state every frame descriptor has pinCnt >= 0,
\* pinCnt > 0 only when valid, and dirty only when valid.
C1_PinDirtyImplyValid ==
    \A i \in Frames :
      /\ bufDescTable[i].pinCnt >= 0
      /\ bufDescTable[i].pinCnt > 0 => bufDescTable[i].valid
      /\ bufDescTable[i].dirty => bufDescTable[i].valid

\* A dirty page with no pin left, on which one more unPinPage is refused
\* and leaves the count at 0, beside a frame that is free.
C1_Witness ==
    \E c \in UnPinCalls, i \in Frames :
      /\ Resident(c) /\ lookup(hashTable, c.file, c.pageNo) = i
      /\ bufDescTable[i].dirty /\ bufDescTable[i].pinCnt = 0
      /\ Result(c).err = "PageNotPinned"
      /\ Result(c).desc[i].pinCnt = 0
      /\ \E j \in Frames : ~bufDescTable[j].valid

(* -------------------------------------------------------------------- C2 *)
\* No two valid descriptors hold the same page and no page has two
\* directory entries.
OnePlaceEach ==
    /\ \A i, j \in Frames :
         (/\ bufDescTable[i].valid /\ bufDescTable[j].valid
          /\ bufDescTable[i].file = bufDescTable[j].file
          /\ bufDescTable[i].pageNo = bufDescTable[j].pageNo) => i = j
    /\ \A e1, e2 \in hashTable : (e1[1] = e2[1] /\ e1[2] = e2[2]) => e1 = e2

\* A page whose frame call c freed, gave to another page or chose as the
\* victim has no directory entry after the call.
GoneIsMiss(c, r) ==
    \A e \in hashTable :
      (\/ ~Holds(r.desc, e[3], e[1], e[2])
       \/ (AsksFrame(c) /\ GotFrame(r) /\ r.frame = e[3]))
      => ~Found(r.ht, e[1], e[2])

\* A directory entry appears only by a successful readPage or allocPage,
\* and only for the page that call loaded.
EntryOnlyByLoad(c, r) ==
    \A e \in r.ht \ hashTable :
      /\ AsksFrame(c) /\ r.err = "none"
      /\ e = <<c.file, c.pageNo, r.frame>>

\* C2: at most one valid descriptor and one directory entry per page, and
\* a page evicted, disposed or flushed is a directory miss until it is
\* fetched or allocated again.
C2_OnePlaceAndMissOnceGone ==
    /\ OnePlaceEach
    /\ \A c \in Calls : \A r \in {Result(c)} :
         GoneIsMiss(c, r) /\ EntryOnlyByLoad(c, r)

\* A full pool in which a readPage evicts one resident page to load another:
\* the evicted page is a miss afterwards, the loaded one a hit.
C2_Witness ==
    \E c \in ReadCalls, e \in hashTable :
      /\ Cardinality(hashTable) = NumBufs
      /\ ~Resident(c) /\ Result(c).err = "none"
      /\ Result(c).frame = e[3]
      /\ ~Found(Result(c).ht, e[1], e[2])
      /\ Found(Result(c).ht, c.file, c.pageNo)

(* -------------------------------------------------------------------- C3 *)
\* C3: at the end of every operation the directory holds (file, pageNo) -> i
\* exactly when descriptor i is valid with owner (file, pageNo).
C3_DirectoryIffValid ==
    \A i \in Frames, k \in Keys :
      (<<k[1], k[2], i>> \in hashTable) <=> Holds(bufDescTable, i, k[1], k[2])

(* -------------------------------------------------------------------- C4 *)
\* A frame pinned before call c keeps its page, stays valid, keeps its
\* directory entry and is not the frame allocBuf hands out.
PinnedStays(c, r) ==
    \A i \in Frames :
      bufDescTable[i].pinCnt > 0 =>
        /\ EntryOf(i) \in hashTable
        /\ Holds(r.desc, i, bufDescTable[i].file, bufDescTable[i].pageNo)
        /\ EntryOf(i) \in r.ht
        /\ (AsksFrame(c) /\ GotFrame(r)) => r.frame # i

\* C4: no readPage, allocPage, flushFile or disposePage removes a pinned
\* page from the directory, frees its descriptor, or hands its frame to
\* another page.
C4_PinnedNeverVictim ==
    \A c \in ReadCalls \cup AllocCalls \cup FlushCalls \cup DisposeCalls :
      \A r \in {Result(c)} : PinnedStays(c, r)

\* The clock hand rests on a pinned frame and a readPage goes past it to
\* evict the page of an unpinned frame.
C4_Witness ==
    \E c \in ReadCalls :
      /\ bufDescTable[clockHand].pinCnt > 0
      /\ ~Resident(c) /\ Result(c).err = "none"
      /\ Result(c).frame # clockHand
      /\ bufDescTable[Result(c).frame].valid
      /\ ~Found(Result(c).ht, bufDescTable[Result(c).frame].file,
                bufDescTable[Result(c).frame].pageNo)

(* -------------------------------------------------------------------- C5 *)
\* C5: with every frame pinned, a readPage miss and an allocPage throw
\* BufferExceededException and change no descriptor (refbits aside) and no
\* directory entry.
C5_ExhaustedLeavesState ==
    AllPinned =>
      \A c \in FrameCalls :
        /\ Result(c).err = "BufferExceeded"
        /\ SameButRefbit(Result(c).desc, bufDescTable)
        /\ Result(c).ht = hashTable

\* Every frame is pinned and an allocPage and a readPage miss both fail,
\* having moved only the clock hand.
C5_Witness ==
    /\ AllPinned
    /\ \E c \in AllocCalls, d \in ReadCalls :
         /\ Result(c).err = "BufferExceeded"
         /\ ~Resident(d) /\ Result(d).err = "BufferExceeded"
         /\ Result(d).hand # clockHand

(* -------------------------------------------------------------------- C6 *)
\* C6: with a frame free or unpinned, a readPage miss and an allocPage
\* succeed when the Page Store call succeeds.
C6_FailsOnlyWhenAllPinned ==
    ~AllPinned =>
      \A c \in FrameCalls : c.flag => Result(c).err = "none"

(* -------------------------------------------------------------------- C7 *)
\* readPage of a resident page: no Page Store call, and only the refbit and
\* the pin count of its frame change.
HitOnlyPins(c) ==
    LET r == Result(c)
        t == lookup(hashTable, c.file, c.pageNo)
    IN Resident(c) =>
         /\ r.err = "none"
         /\ r.reads = 0 /\ r.writes = <<>> /\ r.allocs = 0 /\ r.deletes = 0
         /\ Holds(bufDescTable, t, c.file, c.pageNo)
         /\ r.desc = [bufDescTable EXCEPT ![t].refbit = TRUE,
                                          ![t].pinCnt = @ + 1]
         /\ r.ht = hashTable
         /\ r.hand = clockHand

\* A successful readPage of a non-resident page: one Page Store read, and
\* the page is resident, pinned once, clean and referenced.
MissLoadsOnce(c) ==
    LET r == Result(c) IN
    (~Resident(c) /\ r.err = "none") =>
      /\ r.reads = 1 /\ r.allocs = 0 /\ r.deletes = 0
      /\ r.frame \in Frames
      /\ Holds(r.desc, r.frame, c.file, c.pageNo)
      /\ r.desc[r.frame].pinCnt = 1
      /\ ~r.desc[r.frame].dirty
      /\ r.desc[r.frame].refbit
      /\ Entries(r.ht, c.file, c.pageNo) = {<<c.file, c.pageNo, r.frame>>}

\* C7: what readPage does on a directory hit and on a successful miss.
C7_FetchHitAndMiss == \A c \in ReadCalls : HitOnlyPins(c) /\ MissLoadsOnce(c)

\* A resident page pinned once is pinned a second time by readPage, while
\* a readPage of another page loads it into the other frame.
C7_Witness ==
    \E c, d \in ReadCalls :
      /\ Resident(c)
      /\ bufDescTable[lookup(hashTable, c.file, c.pageNo)].pinCnt = 1
      /\ Result(c).desc[Result(c).frame].pinCnt = 2
      /\ ~Resident(d) /\ Result(d).err = "none" /\ Result(d).reads = 1

(* -------------------------------------------------------------------- C8 *)
\* C8: unPinPage of a page that is not in the directory raises nothing and
\* changes no descriptor, no directory entry and not the clock hand.
C8_UnpinMissIsNoOp ==
    \A c \in UnPinCalls :
      ~Resident(c) =>
        /\ Result(c).err = "none"
        /\ Result(c).desc = bufDescTable
        /\ Result(c).ht = hashTable
        /\ Result(c).hand = clockHand

\* unPinPage with dirty = true of a page that was resident and has been
\* evicted: the pool holds other pages and the call changes none of them.
C8_Witness ==
    \E c \in UnPinCalls :
      /\ ~Resident(c) /\ c.flag
      /\ Cardinality(hashTable) = NumBufs
      /\ Result(c).err = "none"
      /\ Result(c).desc = bufDescTable

(* -------------------------------------------------------------------- C9 *)
\* unPinPage of a resident page: the pin count goes down by one while it
\* is above 0, and at 0 the call throws PageNotPinnedException and leaves
\* the count at 0; the directory and the other pin counts stay.
UnpinCounts(c) ==
    LET r == Result(c)
        t == lookup(hashTable, c.file, c.pageNo)
    IN Resident(c) =>
         /\ Holds(bufDescTable, t, c.file, c.pageNo)
         /\ IF bufDescTable[t].pinCnt > 0
              THEN /\ r.err = "none"
                   /\ r.desc[t].pinCnt = bufDescTable[t].pinCnt - 1
              ELSE /\ r.err = "PageNotPinned"
                   /\ r.desc[t].pinCnt = 0
         /\ \A i \in Frames \ {t} : r.desc[i].pinCnt = bufDescTable[i].pinCnt
         /\ r.ht = hashTable

\* C9: each unPinPage of a pinned page takes one pin, and the first one
\* too many throws PageNotPinnedException.
C9_UnpinDecrementsThenThrows == \A c \in UnPinCalls : UnpinCounts(c)

\* Two pages are resident: unPinPage takes the second of two pins of one,
\* and is refused on the other, which has none left.
C9_Witness ==
    \E c, d \in UnPinCalls :
      /\ Resident(c) /\ Resident(d)
      /\ bufDescTable[lookup(hashTable, c.file, c.pageNo)].pinCnt = 2
      /\ Result(c).desc[Result(c).frame].pinCnt = 1
      /\ bufDescTable[lookup(hashTable, d.file, d.pageNo)].pinCnt = 0
      /\ Result(d).err = "PageNotPinned"

(* ------------------------------------------------------------------- C10 *)
\* disposePage of a pinned resident page throws and deletes nothing; of an
\* unpinned resident page it frees the descriptor, drops the entry and
\* deletes once; of a non-resident page it only deletes once.
DisposeCases(c) ==
    LET r == Result(c)
        t == lookup(hashTable, c.file, c.pageNo)
    IN IF Resident(c)
         THEN IF bufDescTable[t].pinCnt > 0
                THEN /\ r.err = "PagePinned"
                     /\ r.deletes = 0
                     /\ r.desc = bufDescTable
                     /\ r.ht = hashTable
                ELSE /\ r.deletes = 1
                     /\ r.desc = [bufDescTable EXCEPT ![t] = Clear]
                     /\ r.ht = hashTable \ {<<c.file, c.pageNo, t>>}
                     /\ ~Found(r.ht, c.file, c.pageNo)
         ELSE /\ r.deletes = 1
              /\ r.desc = bufDescTable
              /\ r.ht = hashTable

\* C10: the three cases of disposePage.
C10_DisposeCases == \A c \in DisposeCalls : DisposeCases(c)

\* Of two resident pages one is pinned and its disposePage is refused, the
\* other is unpinned and dirty and its disposePage frees the frame.
C10_Witness ==
    \E c, d \in DisposeCalls :
      /\ Resident(c) /\ Result(c).err = "PagePinned"
      /\ Resident(d) /\ Result(d).err = "none"
      /\ bufDescTable[Result(d).frame].dirty
      /\ ~Result(d).desc[Result(d).frame].valid

(* ------------------------------------------------------------------- C11 *)
\* How many times page (file, pageNo) is in the sequence of pages written.
TimesWritten(writes, file, pageNo) ==
    Cardinality({n \in 1..Len(writes) : writes[n] = <<file, pageNo>>})

\* No page of file f in the directory is pinned.
NoResidentPinned(f) ==
    \A e \in hashTable : e[1] = f => bufDescTable[e[3]].pinCnt = 0

\* flushFile call c returned, left no frame and no directory entry of its
\* file, wrote each dirty frame of the file once and no clean one, and left
\* the frames and the entries of the other files as they were.
FlushedAll(c, r) ==
    /\ r.err = "none"
    /\ \A i \in Frames : r.desc[i].file # c.file
    /\ \A e \in r.ht : e[1] # c.file
    /\ \A i \in Frames :
         (bufDescTable[i].valid /\ bufDescTable[i].file = c.file) =>
           TimesWritten(r.writes, c.file, bufDescTable[i].pageNo) =
             IF bufDescTable[i].dirty THEN 1 ELSE 0
    /\ Len(r.writes) =
         Cardinality({i \in Frames : bufDescTable[i].file = c.file
                                       /\ bufDescTable[i].dirty})
    /\ \A i \in Frames :
         bufDescTable[i].file # c.file => r.desc[i] = bufDescTable[i]
    /\ \A e \in hashTable : e[1] # c.file => e \in r.ht

\* C11: when no resident page of the file is pinned, flushFile succeeds,
\* frees every frame of the file with one write per dirty frame, and leaves
\* the frames of other files untouched.
C11_FlushFileFreesFile ==
    \A c \in FlushCalls : NoResidentPinned(c.file) => FlushedAll(c, Result(c))

(* ------------------------------------------------------------------- C12 *)
\* The frames of file f that are pinned.
PinnedOf(f) ==
    {i \in Frames : bufDescTable[i].file = f /\ bufDescTable[i].pinCnt > 0}

\* The first of a non-empty set of frames, in frame order.
FirstOf(S) == CHOOSE i \in S : \A j \in S : i <= j

\* flushFile call c threw PagePinnedException at frame p: the frames of its
\* file below p are written back if dirty, out of the directory and free;
\* frame p, the frames above it and the frames of other files are as they
\* were, with their directory entries.
FlushedUpTo(c, r, p) ==
    /\ r.err = "PagePinned" /\ r.frame = p
    /\ \A i \in Frames :
         IF i < p /\ bufDescTable[i].file = c.file
           THEN /\ r.desc[i] = Clear
                /\ EntryOf(i) \notin r.ht
                /\ TimesWritten(r.writes, c.file, bufDescTable[i].pageNo) =
                     IF bufDescTable[i].dirty THEN 1 ELSE 0
           ELSE /\ r.desc[i] = bufDescTable[i]
                /\ EntryOf(i) \in hashTable => EntryOf(i) \in r.ht
    /\ Len(r.writes) =
         Cardinality({i \in Frames : i < p /\ bufDescTable[i].file = c.file
                                       /\ bufDescTable[i].dirty})

\* C12: a flushFile that meets a pinned frame of its file throws
\* PagePinnedException at the first one in frame order, keeps the frames
\* before it flushed and changes nothing else.
C12_FlushStopsAtFirstPinned ==
    \A c \in FlushCalls :
      PinnedOf(c.file) # {} =>
        FlushedUpTo(c, Result(c), FirstOf(PinnedOf(c.file)))

(* ------------------------------------------------------------------- C13 *)
\* Call c got frame r.frame, which held a page: that page alone left the
\* directory, it was written back once if dirty and not at all if clean,
\* and every other frame kept its page, flags, pin count and entry.
EvictsOnlyVictim(c, r) ==
    (AsksFrame(c) /\ GotFrame(r) /\ bufDescTable[r.frame].valid) =>
      /\ hashTable \ r.ht = {EntryOf(r.frame)}
      /\ r.writes = IF bufDescTable[r.frame].dirty
                      THEN <<<<bufDescTable[r.frame].file,
                               bufDescTable[r.frame].pageNo>>>>
                      ELSE <<>>
      /\ \A i \in Frames \ {r.frame} :
           /\ r.desc[i].file = bufDescTable[i].file
           /\ r.desc[i].pageNo = bufDescTable[i].pageNo
           /\ r.desc[i].valid = bufDescTable[i].valid
           /\ r.desc[i].dirty = bufDescTable[i].dirty
           /\ r.desc[i].pinCnt = bufDescTable[i].pinCnt
           /\ EntryOf(i) \in hashTable => EntryOf(i) \in r.ht

\* C13: a readPage miss or allocPage that evicts touches only its victim.
C13_EvictionTouchesOnlyVictim ==
    \A c \in ReadCalls \cup AllocCalls : EvictsOnlyVictim(c, Result(c))

(* ------------------------------------------------------------------- C14 *)
\* Call c is about the page in frame i.
AboutPageOf(c, i) ==
    c.file = bufDescTable[i].file /\ c.pageNo = bufDescTable[i].pageNo

\* A frame that is dirty before call c is still dirty with the same page
\* after it, or its page was written to the Page Store during the call, or
\* the call was disposePage of that page.  readPage and unPinPage of the
\* page leave it dirty.
DirtyKeptOrWritten(c, r) ==
    \A i \in Frames :
      bufDescTable[i].dirty =>
        /\ \/ /\ r.desc[i].dirty
              /\ Holds(r.desc, i, bufDescTable[i].file, bufDescTable[i].pageNo)
           \/ TimesWritten(r.writes, bufDescTable[i].file,
                           bufDescTable[i].pageNo) = 1
           \/ c.op = "disposePage" /\ AboutPageOf(c, i)
        /\ (c.op \in {"readPage", "unPinPage"} /\ AboutPageOf(c, i)) =>
             r.desc[i].dirty

\* unPinPage with dirty = true of a pinned resident page sets its dirty bit.
UnpinMarksDirty(c, r) ==
    (c.op = "unPinPage" /\ c.flag /\ Resident(c)
       /\ bufDescTable[lookup(hashTable, c.file, c.pageNo)].pinCnt > 0) =>
      r.desc[lookup(hashTable, c.file, c.pageNo)].dirty

\* The destructor writes the page of every dirty frame once and nothing
\* else.
TeardownWritesDirty(r) ==
    /\ \A i \in Frames :
         bufDescTable[i].dirty =>
           TimesWritten(r.writes, bufDescTable[i].file,
                        bufDescTable[i].pageNo) = 1
    /\ Len(r.writes) = Cardinality({i \in Frames : bufDescTable[i].dirty})

\* C14: a page marked dirty stays dirty until it is written back; eviction
\* and flushFile write it before the frame is reused or freed, the
\* destructor writes every dirty frame once, and only disposePage drops a
\* dirty page unwritten.
C14_DirtyWrittenBeforeDropped ==
    /\ \A c \in Calls : \A r \in {Result(c)} :
         DirtyKeptOrWritten(c, r) /\ UnpinMarksDirty(c, r)
    /\ TeardownWritesDirty(destructor(Cur))

\* A readPage that evicts a dirty page and writes it back, in a pool whose
\* other frame is dirty too, so that the destructor would write two pages.
C14_Witness ==
    \E c \in ReadCalls :
      /\ ~Resident(c) /\ Result(c).err = "none"
      /\ bufDescTable[Result(c).frame].dirty
      /\ Result(c).writes = <<<<bufDescTable[Result(c).frame].file,
                                bufDescTable[Result(c).frame].pageNo>>>>
      /\ Len(destructor(Cur).writes) = 2
      /\ Len(destructor(Result(c)).writes) = 1

(* ------------------------------------------------------------------- C15 *)
\* Two client threads calling into one BufMgr.  The methods take no lock, so
\* the threads interleave between the statements of readPage and allocPage:
\* the directory lookup, the allocBuf call, and the Page Store call with the
\* insert and Set that follow it.

\* The manager state changes to M, thread t moves to th.
CStep(M, t, th) ==
    /\ bufDescTable' = M.desc
    /\ hashTable' = M.ht
    /\ clockHand' = M.hand
    /\ threads' = [threads EXCEPT ![t] = th]
    /\ UNCHANGED alive

\* readPage up to the lookup: a hit pins the page and returns, a miss
\* enters the catch block.
CReadLookup(t) ==
    /\ threads[t].pc = "idle"
    /\ \E k \in Keys :
         IF Found(hashTable, k[1], k[2])
           THEN LET frameNo == lookup(hashTable, k[1], k[2]) IN
                /\ bufDescTable[frameNo].pinCnt < MaxPin
                /\ CStep(Mgr([bufDescTable EXCEPT ![frameNo].refbit = TRUE,
                                                  ![frameNo].pinCnt = @ + 1],
                             hashTable, clockHand), t, Idle)
           ELSE CStep(Cur, t, [pc |-> "allocBuf", op |-> "readPage",
                               file |-> k[1], pageNo |-> k[2],
                               frame |-> NoFrame])

\* allocPage is entered.
CAllocPageEnter(t) ==
    /\ threads[t].pc = "idle"
    /\ \E f \in Files :
         CStep(Cur, t, [pc |-> "allocBuf", op |-> "allocPage", file |-> f,
                        pageNo |-> InvalidPage, frame |-> NoFrame])

\* The allocBuf call of readPage or allocPage; an exception ends the call.
CAllocBuf(t) ==
    /\ threads[t].pc = "allocBuf"
    /\ LET a == allocBuf(Cur) IN
       CStep(a, t, IF a.err = "none"
                     THEN [threads[t] EXCEPT !.pc = "load", !.frame = a.frame]
                     ELSE Idle)

\* The page a thread's Page Store call brings: the page asked for by
\* readPage, a page not in the directory for allocPage.
CPages(t) ==
    IF threads[t].op = "readPage" THEN {threads[t].pageNo}
    ELSE {p \in PagesOf(threads[t].file) :
            ~Found(hashTable, threads[t].file, p)}

\* The rest of the call: the Page Store call, hashTable->insert and Set.
CLoad(t) ==
    /\ threads[t].pc = "load"
    /\ \/ CStep(Cur, t, Idle)
       \/ \E p \in CPages(t) :
            IF Found(hashTable, threads[t].file, p)
              THEN CStep(Cur, t, Idle)
              ELSE CStep(Mgr([bufDescTable EXCEPT ![threads[t].frame] =
                                Set(threads[t].file, p)],
                             insert(hashTable, threads[t].file, p,
                                    threads[t].frame),
                             clockHand), t, Idle)

\* unPinPage as one step.  The threads here only read the pages they pin,
\* so they unpin with dirty = false.
CUnPin(t) ==
    /\ threads[t].pc = "idle"
    /\ \E k \in Keys : CStep(unPinPage(Cur, k[1], k[2], FALSE), t, Idle)

NextConc ==
    \E t \in Threads :
      \/ CReadLookup(t)
      \/ CAllocPageEnter(t)
      \/ CAllocBuf(t)
      \/ CLoad(t)
      \/ CUnPin(t)

SpecConc == Init /\ [][NextConc]_vars

\* C15: two threads between allocBuf and the load never hold the same
\* frame, no frame is the target of two directory entries and no page has
\* two directory entries.
C15_ConcurrentMissesDistinctFrames ==
    /\ \A t, u \in Threads :
         (t # u /\ threads[t].pc = "load" /\ threads[u].pc = "load") =>
           threads[t].frame # threads[u].frame
    /\ \A e, g \in hashTable : (e[3] = g[3]) => (e = g)
    /\ \A k \in Keys : Cardinality(Entries(hashTable, k[1], k[2])) <= 1

(* ------------------------------------------------------------------- C16 *)
\* How many times the sweep of a frame-asking call inspects frame i.
TimesVisited(i) ==
    Cardinality({n \in DOMAIN allocVisits(Cur, 0) :
                   allocVisits(Cur, 0)[n] = i})

\* Frame i holds a page that is unpinned and was referenced since the last
\* sweep.
Reprieved(i) ==
    /\ bufDescTable[i].valid
    /\ bufDescTable[i].pinCnt = 0
    /\ bufDescTable[i].refbit

\* C16: a valid, unpinned frame whose refbit is set is not selected on the
\* encounter that finds the refbit set: when allocBuf hands out such a
\* frame, its sweep has inspected the frame at least twice.
C16_SecondChance ==
    \A c \in ReadCalls \cup AllocCalls : \A r \in {Result(c)} :
      (AsksFrame(c) /\ GotFrame(r) /\ Reprieved(r.frame)) =>
        TimesVisited(r.frame) >= 2

(* ------------------------------------------------------------------- C17 *)
\* The frame of the resident page of call c.
FrameOf(c) == lookup(hashTable, c.file, c.pageNo)

\* C17 as claimed: unPinPage with dirty = true of a resident page sets the
\* dirty bit whatever the pin count, also when the call throws
\* PageNotPinnedException.
C17_DirtySetBeforePinCheck ==
    \A c \in UnPinCalls : \A r \in {Result(c)} :
      (Resident(c) /\ c.flag) => r.desc[FrameOf(c)].dirty

\* C17 amended: unPinPage tests the pin count first.  With dirty = true it
\* sets the dirty bit of a page whose pin count is above 0, and on a page
\* whose pin count is 0 it throws PageNotPinnedException and changes
\* nothing, the dirty bit included.
C17_DirtySetOnlyWhenPinned ==
    \A c \in UnPinCalls : \A r \in {Result(c)} :
      (Resident(c) /\ c.flag) =>
        IF bufDescTable[FrameOf(c)].pinCnt > 0
          THEN r.err = "none" /\ r.desc[FrameOf(c)].dirty
          ELSE /\ r.err = "PageNotPinned"
               /\ r.desc = bufDescTable
               /\ r.ht = hashTable

\* A clean resident page without pins on which unPinPage(dirty = true)
\* throws and which stays clean, beside a pinned clean page that the same
\* call marks dirty.
C17_Witness ==
    \E c, d \in UnPinCalls :
      /\ Resident(c) /\ c.flag
      /\ bufDescTable[FrameOf(c)].pinCnt = 0
      /\ ~bufDescTable[FrameOf(c)].dirty
      /\ Result(c).err = "PageNotPinned"
      /\ ~Result(c).desc[FrameOf(c)].dirty
      /\ Resident(d) /\ d.flag
      /\ bufDescTable[FrameOf(d)].pinCnt > 0
      /\ ~bufDescTable[FrameOf(d)].dirty
      /\ Result(d).desc[FrameOf(d)].dirty

(* ------------------------------------------------------------------- C18 *)
\* C18: allocBuf ends for every pool state, with a frame of the pool or
\* with BufferExceededException and with no other exception, after
\* inspecting at most 2 * NumBufs frames, and the clock hand is a frame of
\* the pool before and after every call.
C18_AllocatorTerminates ==
    /\ clockHand \in Frames
    /\ \A c \in Calls : Result(c).hand \in Frames
    /\ \A c \in ReadCalls \cup AllocCalls : \A r \in {Result(c)} :
         AsksFrame(c) =>
           /\ Len(allocVisits(Cur, 0)) <= 2 * NumBufs
           /\ IF GotFrame(r) THEN r.frame \in Frames
                             ELSE r.err = "BufferExceeded"

(* ------------------------------------------------------------------- C19 *)
\* C19: no descriptor is invalid and still owned by a file, and no call
\* ends with BadBufferException, neither flushFile itself nor the flushFile
\* that allocBuf runs for a dirty victim.
C19_BadBufferUnreachable ==
    /\ \A i \in Frames :
         ~bufDescTable[i].valid => bufDescTable[i].file = NullFile
    /\ \A c \in Calls : \A r \in {Result(c)} :
         /\ r.err # "BadBuffer"
         /\ \A i \in Frames : ~r.desc[i].valid => r.desc[i].file = NullFile

\* flushFile of a file passes over a free frame without an exception and
\* then writes and frees a dirty page of the file in a later frame.
C19_Witness ==
    \E c \in FlushCalls, i, j \in Frames :
      /\ ~bufDescTable[i].valid
      /\ i < j
      /\ bufDescTable[j].valid /\ bufDescTable[j].file = c.file
      /\ bufDescTable[j].dirty
      /\ Result(c).err = "none"
      /\ Len(Result(c).writes) = 1
      /\ ~Result(c).desc[j].valid

(* ------------------------------------------------------------------- C20 *)
\* What an allocPage with result r has done: without a frame from allocBuf
\* it has not called File::allocatePage; with one it has called it once,
\* and when it returns the new page is in that frame with one pin, clean,
\* and in the directory.
AllocFrameFirst(c, r) ==
    /\ r.err = "BufferExceeded" => (r.allocs = 0 /\ r.desc = bufDescTable)
    /\ ~GotFrame(r) => r.allocs = 0
    /\ GotFrame(r) => r.allocs = 1
    /\ r.err = "none" =>
         /\ r.frame \in Frames
         /\ Holds(r.desc, r.frame, c.file, c.pageNo)
         /\ r.desc[r.frame].pinCnt = 1
         /\ ~r.desc[r.frame].dirty
         /\ Entries(r.ht, c.file, c.pageNo) = {<<c.file, c.pageNo, r.frame>>}

\* C20: allocPage gets its frame before it asks the file for a page: a call
\* that ends with BufferExceededException has allocated no page, and a call
\* that returns has allocated one page and left it resident with pinCnt 1,
\* clean, under its page number.
C20_AllocPageFrameFirst ==
    \A c \in AllocCalls : \A r \in {Result(c)} : AllocFrameFirst(c, r)

\* An allocPage that gets the last free frame and allocates one page, after
\* which every frame is pinned and a further allocPage ends with
\* BufferExceededException without allocating.
C20_Witness ==
    \E c \in AllocCalls, k \in Keys :
      /\ Result(c).err = "none"
      /\ Result(c).allocs = 1
      /\ Result(c).desc[Result(c).frame].pinCnt = 1
      /\ ~Found(Result(c).ht, k[1], k[2])
      /\ allocPage(Result(c), k[1], k[2], TRUE).err = "BufferExceeded"
      /\ allocPage(Result(c), k[1], k[2], TRUE).allocs = 0

====
